---- MODULE Spec2Model ----
(***************************************************************************)
(* Baseball stats pipeline: the CSV importer (import_csvs.py) that         *)
(* replaces tables of the store, and one render of the dashboard script    *)
(* (app.py): the tolerant table reader, the sidebar filters and the four   *)
(* views.                                                                  *)
(*                                                                         *)
(* A DataFrame is [cols |-> sequence of column names, rows |-> sequence of *)
(* rows], a row being a function from the column names to cell values.     *)
(* Cells of the text columns (Name, Team, League) are strings, NULL being  *)
(* the missing value; cells of the numeric columns are integers, NaN being *)
(* the missing value (Batting_Average is kept in thousandths).             *)
(***************************************************************************)
EXTENDS Integers, Sequences, FiniteSets, TLC

VARIABLES
    \* ---- importer (import_csvs.py)
    csv_dir,      \* does the data/ directory exist
    csv,          \* file name -> the file as read by read_csv, or NoFile
    db,           \* the store: table name -> table
    ipc,          \* position of main(): "idle", "loop", "done"
    idx,          \* position of main's loop in REQUIRED
    db0,          \* the store as it was when main() started
    written,      \* the tables to_sql has written in this run of main()
    imports,      \* table name -> number of imports of its file so far (capped)
    first,        \* table name -> the table as the first import left it
    \* ---- dashboard (app.py), one run of the script
    pc,           \* position of the script
    df_batting, df_home_runs, df_career_strikeouts,
    years, teams, min_home_runs, league,
    df_line, status1,
    df_hr, hr_table, status2,
    df_k, status3,
    selected_player, df_combined, combined_table, status4

importer_vars == <<csv_dir, csv, ipc, idx, db0, written, imports, first>>
widget_vars == <<years, teams, min_home_runs, league>>
frame_vars == <<df_batting, df_home_runs, df_career_strikeouts>>
view1_vars == <<df_line, status1>>
view2_vars == <<df_hr, hr_table, status2>>
view3_vars == <<df_k, status3>>
view4_vars == <<selected_player, df_combined, combined_table, status4>>
render_vars == <<pc, frame_vars, widget_vars, view1_vars, view2_vars, view3_vars, view4_vars>>
vars == <<importer_vars, db, render_vars>>

(***************************************************************************)
(* Bounds of the model.                                                    *)
(***************************************************************************)
\* rows of a table whose content is enumerated
MaxRows == 3
\* rows of each of the three tables when all three are enumerated together
MaxJoinRows == 2
\* times the importer is run again on the same files
MaxImports == 2
\* rows of a CSV file
MaxCsvRows == 2

(***************************************************************************)
(* Values.                                                                 *)
(***************************************************************************)
\* the missing value of a numeric column (NaN / <NA> / SQL NULL)
NaN == 0 - 1
\* the missing value of a text column
NULL == "NULL"
\* Python's None for a widget value that was never set
None == "None"

Range(s) == {s[i] : i \in DOMAIN s}
SeqsUpTo(S, n) == UNION {[1..k -> S] : k \in 0..n}

RECURSIVE Flatten(_)
Flatten(ss) == IF ss = <<>> THEN <<>> ELSE Head(ss) \o Flatten(Tail(ss))

RECURSIVE Sum(_)
Sum(s) == IF s = <<>> THEN 0 ELSE Head(s) + Sum(Tail(s))

(***************************************************************************)
(* app.py: configuration and the tolerant table reader.                    *)
(***************************************************************************)
Tables == {"batting_avg", "home_runs", "career_strikeouts"}

EXPECTED == [batting_avg |-> <<"Name", "Team", "Year", "Batting_Average">>,
             home_runs |-> <<"Name", "Career_Home_Runs">>,
             career_strikeouts |-> <<"Name", "League", "Career_Strikeouts">>]

NumericCols == {"Year", "Batting_Average", "Career_Home_Runs", "Career_Strikeouts"}
NullOf(c) == IF c \in NumericCols THEN NaN ELSE NULL

\* a table of the store; state is "absent" (no such table), "unreadable" (the
\* SELECT raises) or "ok"
Absent == [state |-> "absent", cols |-> <<>>, rows |-> <<>>]
Unreadable == [state |-> "unreadable", cols |-> <<>>, rows |-> <<>>]
Table(cols, rows) == [state |-> "ok", cols |-> cols, rows |-> rows]

DataFrame(cols, rows) == [cols |-> cols, rows |-> rows]
EmptyDF(cols) == DataFrame(cols, <<>>)
Has(df, c) == c \in Range(df.cols)
\* DataFrame.empty: some axis has length 0
empty(df) == Len(df.rows) = 0 \/ Len(df.cols) = 0

\* df[present]
Project(df, present) ==
    DataFrame(present,
              [i \in DOMAIN df.rows |-> [c \in Range(present) |-> df.rows[i][c]]])

\* read_table without its projection: the table is returned as stored
read_table_unprojected(conn, table, cols) ==
    IF conn[table].state # "ok" THEN EmptyDF(cols)
    ELSE LET present == SelectSeq(cols, LAMBDA c : c \in Range(conn[table].cols))
         IN IF present # <<>>
            THEN DataFrame(conn[table].cols, conn[table].rows)
            ELSE EmptyDF(cols)

read_table(conn, table, cols) ==
    IF conn[table].state # "ok" THEN EmptyDF(cols)
    ELSE LET present == SelectSeq(cols, LAMBDA c : c \in Range(conn[table].cols))
         IN IF present # <<>>
            THEN Project(DataFrame(conn[table].cols, conn[table].rows), present)
            ELSE EmptyDF(cols)

LoadData ==
    /\ pc = "load"
    /\ df_batting' = read_table(db, "batting_avg", EXPECTED["batting_avg"])
    /\ df_home_runs' = read_table(db, "home_runs", EXPECTED["home_runs"])
    /\ df_career_strikeouts' =
           read_table(db, "career_strikeouts", EXPECTED["career_strikeouts"])
    /\ pc' = "sidebar"
    /\ UNCHANGED <<importer_vars, db, widget_vars, view1_vars, view2_vars,
                   view3_vars, view4_vars>>

(***************************************************************************)
(* app.py: sidebar filters (lines 44-68).  Nothing here is inside a try:   *)
(* an exception ends the run of the script (pc = "crashed").               *)
(***************************************************************************)
Column(df, c) == [i \in DOMAIN df.rows |-> df.rows[i][c]]

\* sorted(df[c].dropna().unique()), as the set of its elements
Available(df, c) == Range(Column(df, c)) \ {NullOf(c)}

Max(S) == CHOOSE m \in S : \A x \in S : x <= m

\* df_home_runs["Career_Home_Runs"].max(): missing values are skipped, and
\* the maximum of nothing is NaN
max_home_runs(df) ==
    LET vals == Available(df, "Career_Home_Runs")
    IN IF vals = {} THEN NaN ELSE Max(vals)

\* the values the league selectbox can return (lines 64-68)
league_choices(df) ==
    IF ~empty(df) /\ Has(df, "League")
    THEN IF Available(df, "League") # {} THEN Available(df, "League") ELSE {None}
    ELSE {None}

\* min_home_runs is NaN where the script has None
SidebarFilters ==
    /\ pc = "sidebar"
    /\ IF ~empty(df_batting) /\ ~(Has(df_batting, "Year") /\ Has(df_batting, "Team"))
       THEN \* KeyError at line 49 or 50
            /\ pc' = "crashed"
            /\ UNCHANGED widget_vars
       ELSE \E ys \in SUBSET (IF empty(df_batting) THEN {} ELSE Available(df_batting, "Year")),
               ts \in SUBSET (IF empty(df_batting) THEN {} ELSE Available(df_batting, "Team")) :
              /\ years' = ys
              /\ teams' = ts
              /\ IF ~empty(df_home_runs) /\ Has(df_home_runs, "Career_Home_Runs")
                 THEN IF max_home_runs(df_home_runs) = NaN
                      THEN \* int(nan) raises ValueError at line 58
                           /\ pc' = "crashed"
                           /\ UNCHANGED <<min_home_runs, league>>
                      ELSE \* the slider: any value of 0..max_home_runs, its
                           \* default min(100, max_home_runs) being one of them
                           /\ min_home_runs' \in 0..max_home_runs(df_home_runs)
                           /\ league' \in league_choices(df_career_strikeouts)
                           /\ pc' = "chart1"
                 ELSE /\ min_home_runs' = NaN
                      /\ league' \in league_choices(df_career_strikeouts)
                      /\ pc' = "chart1"
    /\ UNCHANGED <<importer_vars, db, frame_vars, view1_vars, view2_vars,
                   view3_vars, view4_vars>>

(***************************************************************************)
(* Chart 1: batting average over time (lines 72-98).                       *)
(***************************************************************************)
\* time_series without its two guards: the isin filters are applied to an
\* empty selection too
time_series_always_filtered(df, ys, ts) ==
    SelectSeq(SelectSeq(df.rows, LAMBDA r : r["Year"] \in ys),
              LAMBDA r : r["Team"] \in ts)

\* df_line after the two optional isin filters; an empty selection is falsy
\* and leaves the frame unfiltered
time_series(df, ys, ts) ==
    LET byYear == IF ys # {} THEN SelectSeq(df.rows, LAMBDA r : r["Year"] \in ys)
                  ELSE df.rows
    IN IF ts # {} THEN SelectSeq(byYear, LAMBDA r : r["Team"] \in ts) ELSE byYear

Chart1 ==
    /\ pc = "chart1"
    /\ IF empty(df_batting)
       THEN /\ status1' = "info"
            /\ df_line' = <<>>
       ELSE /\ df_line' = time_series(df_batting, years, teams)
            /\ status1' = IF time_series(df_batting, years, teams) = <<>>
                          THEN "info" ELSE "chart"
    /\ pc' = "chart2"
    /\ UNCHANGED <<importer_vars, db, frame_vars, widget_vars, view2_vars,
                   view3_vars, view4_vars>>

(***************************************************************************)
(* sort_values(by): pandas' default kind is quicksort, which is not stable. *)
(* The rows with a value are ordered by it, rows with equal values in any  *)
(* order; the rows with a missing value follow in their original order     *)
(* (na_position = "last").  The operator is the set of possible results.   *)
(***************************************************************************)
Perms(n) == {p \in [1..n -> 1..n] : \A i, j \in 1..n : i # j => p[i] # p[j]}

\* sort_values keeping one row for each value
sort_values_unique(rows, by, ascending) ==
    LET vals == SelectSeq(rows, LAMBDA r : r[by] # NaN)
        keys == {vals[i][by] : i \in DOMAIN vals}
        n == Cardinality(keys)
        Pick(v) == vals[CHOOSE i \in DOMAIN vals : vals[i][by] = v]
    IN {[i \in 1..n |-> Pick(k[i])] :
           k \in {q \in [1..n -> keys] :
                    \A i \in 1..n, j \in 1..n :
                       i < j => IF ascending THEN q[i] < q[j] ELSE q[i] > q[j]}}

sort_values(rows, by, ascending) ==
    LET vals == SelectSeq(rows, LAMBDA r : r[by] # NaN)
        nans == SelectSeq(rows, LAMBDA r : r[by] = NaN)
        n == Len(vals)
        Ordered(p) == \A i \in 1..n, j \in 1..n :
                         i < j => IF ascending THEN vals[p[i]][by] <= vals[p[j]][by]
                                  ELSE vals[p[i]][by] >= vals[p[j]][by]
    IN {[i \in 1..n |-> vals[p[i]]] \o nans : p \in {q \in Perms(n) : Ordered(q)}}

(***************************************************************************)
(* Chart 2: career home runs (lines 102-127).                              *)
(***************************************************************************)
\* ranking_filter with > for >=
ranking_filter_strict(rows, T) ==
    SelectSeq(rows, LAMBDA r : r["Career_Home_Runs"] # NaN /\ r["Career_Home_Runs"] > T)

\* df_home_runs[df_home_runs["Career_Home_Runs"] >= min_home_runs]; a
\* comparison with a missing value is False
ranking_filter(rows, T) ==
    SelectSeq(rows, LAMBDA r : r["Career_Home_Runs"] # NaN /\ r["Career_Home_Runs"] >= T)

Chart2 ==
    /\ pc = "chart2"
    /\ IF empty(df_home_runs) \/ min_home_runs = NaN
       THEN /\ status2' = "info"
            /\ UNCHANGED <<df_hr, hr_table>>
       ELSE /\ df_hr' = ranking_filter(df_home_runs.rows, min_home_runs)
            /\ IF ranking_filter(df_home_runs.rows, min_home_runs) = <<>>
               THEN /\ status2' = "info"
                    /\ UNCHANGED hr_table
               ELSE IF ~Has(df_home_runs, "Name")
               THEN \* KeyError inside the try: st.error
                    /\ status2' = "error"
                    /\ UNCHANGED hr_table
               ELSE /\ status2' = "table"
                    /\ hr_table' \in
                         sort_values(
                             Project(DataFrame(df_home_runs.cols,
                                               ranking_filter(df_home_runs.rows, min_home_runs)),
                                     <<"Name", "Career_Home_Runs">>).rows,
                             "Career_Home_Runs", FALSE)
    /\ pc' = "chart3"
    /\ UNCHANGED <<importer_vars, db, frame_vars, widget_vars, view1_vars,
                   view3_vars, view4_vars>>

(***************************************************************************)
(* Chart 3: career strikeouts by league, cumulative (lines 131-153).       *)
(***************************************************************************)
\* Series.cumsum(): a missing value is skipped by the running sum and stays
\* missing in the result
\* cumsum one row late: the running sum leaves the row's own value out
RECURSIVE cumsum_exclusive(_)
cumsum_exclusive(vals) ==
    IF vals = <<>> THEN <<>>
    ELSE LET n == Len(vals)
             init == SubSeq(vals, 1, n - 1)
         IN cumsum_exclusive(init) \o
            <<IF vals[n] = NaN THEN NaN
              ELSE Sum(SelectSeq(init, LAMBDA v : v # NaN))>>

RECURSIVE cumsum(_)
cumsum(vals) ==
    IF vals = <<>> THEN <<>>
    ELSE LET n == Len(vals)
             init == SubSeq(vals, 1, n - 1)
         IN cumsum(init) \o
            <<IF vals[n] = NaN THEN NaN
              ELSE Sum(SelectSeq(vals, LAMBDA v : v # NaN))>>

\* df_k["Cumulative"] = ...: the rows with the new column
with_cumulative(rows) ==
    LET cs == cumsum([i \in DOMAIN rows |-> rows[i]["Career_Strikeouts"]])
    IN [i \in DOMAIN rows |->
           [c \in DOMAIN rows[i] \cup {"Cumulative"} |->
               IF c = "Cumulative" THEN cs[i] ELSE rows[i][c]]]

league_rows(df, lg) == SelectSeq(df.rows, LAMBDA r : r["League"] = lg)

Chart3 ==
    /\ pc = "chart3"
    /\ IF empty(df_career_strikeouts) \/ league = None
       THEN /\ status3' = "info"
            /\ UNCHANGED df_k
            /\ pc' = "combined"
       ELSE IF ~Has(df_career_strikeouts, "Career_Strikeouts")
       THEN \* KeyError at line 135, outside the try
            /\ pc' = "crashed"
            /\ UNCHANGED <<df_k, status3>>
       ELSE /\ \E sorted \in sort_values(league_rows(df_career_strikeouts, league),
                                         "Career_Strikeouts", TRUE) :
                 IF sorted = <<>>
                 THEN /\ df_k' = sorted
                      /\ status3' = "info"
                 ELSE /\ df_k' = with_cumulative(sorted)
                      /\ status3' = "chart"
            /\ pc' = "combined"
    /\ UNCHANGED <<importer_vars, db, frame_vars, widget_vars, view1_vars,
                   view2_vars, view4_vars>>

(***************************************************************************)
(* Combined stats for a player (lines 157-177).                            *)
(***************************************************************************)
\* merge with how="inner": a left row without a match is dropped
merge_inner(left, right) ==
    LET extra == SelectSeq(right.cols, LAMBDA c : c # "Name")
        Joined(l, r) == [c \in Range(left.cols) \cup Range(extra) |->
                            IF c \in Range(left.cols) THEN l[c] ELSE r[c]]
        Matches(l) == SelectSeq(right.rows, LAMBDA r : r["Name"] = l["Name"])
        RowsFor(l) == [k \in DOMAIN Matches(l) |-> Joined(l, Matches(l)[k])]
    IN DataFrame(left.cols \o extra,
                 Flatten([i \in DOMAIN left.rows |-> RowsFor(left.rows[i])]))

\* left.merge(right, on="Name", how="left"): every left row, once per right
\* row of the same Name, or once with missing values when there is none
merge(left, right) ==
    LET extra == SelectSeq(right.cols, LAMBDA c : c # "Name")
        Joined(l, r) == [c \in Range(left.cols) \cup Range(extra) |->
                            IF c \in Range(left.cols) THEN l[c] ELSE r[c]]
        Unmatched(l) == [c \in Range(left.cols) \cup Range(extra) |->
                            IF c \in Range(left.cols) THEN l[c] ELSE NullOf(c)]
        Matches(l) == SelectSeq(right.rows, LAMBDA r : r["Name"] = l["Name"])
        RowsFor(l) == IF Matches(l) = <<>> THEN <<Unmatched(l)>>
                      ELSE [k \in DOMAIN Matches(l) |-> Joined(l, Matches(l)[k])]
    IN DataFrame(left.cols \o extra,
                 Flatten([i \in DOMAIN left.rows |-> RowsFor(left.rows[i])]))

player_rows(df, p) == DataFrame(df.cols, SelectSeq(df.rows, LAMBDA r : r["Name"] = p))

\* df_combined after the two optional merges
combined(bat, hr, k, p) ==
    LET c0 == player_rows(bat, p)
        c1 == IF ~empty(hr) THEN merge(c0, hr) ELSE c0
    IN IF ~empty(k) THEN merge(c1, k) ELSE c1

keep_cols(df) ==
    SelectSeq(<<"Year", "Batting_Average", "Career_Home_Runs", "Career_Strikeouts">>,
              LAMBDA c : Has(df, c))

\* the values the player selectbox can return (lines 160-161)
player_choices(df) ==
    IF Available(df, "Name") # {} THEN Available(df, "Name") ELSE {None}

Combined ==
    /\ pc = "combined"
    /\ IF empty(df_batting)
       THEN /\ status4' = "info"
            /\ UNCHANGED <<selected_player, df_combined, combined_table>>
            /\ pc' = "done"
       ELSE IF ~Has(df_batting, "Name")
       THEN \* KeyError at line 160
            /\ pc' = "crashed"
            /\ UNCHANGED view4_vars
       ELSE \E p \in player_choices(df_batting) :
              /\ selected_player' = p
              /\ IF p = None
                 THEN /\ status4' = "none"
                      /\ UNCHANGED <<df_combined, combined_table>>
                      /\ pc' = "done"
                 ELSE IF \/ (~empty(df_home_runs) /\ ~Has(df_home_runs, "Name"))
                         \/ (~empty(df_career_strikeouts)
                               /\ ~Has(df_career_strikeouts, "Name"))
                 THEN \* merge raises KeyError: 'Name' at line 166 or 168
                      /\ pc' = "crashed"
                      /\ UNCHANGED <<df_combined, combined_table, status4>>
                 ELSE LET c == combined(df_batting, df_home_runs,
                                        df_career_strikeouts, p)
                      IN /\ df_combined' = c
                         /\ IF empty(c)
                            THEN /\ status4' = "write"
                                 /\ UNCHANGED combined_table
                            ELSE /\ status4' = "table"
                                 /\ combined_table' = Project(c, keep_cols(c))
                         /\ pc' = "done"
    /\ UNCHANGED <<importer_vars, db, frame_vars, widget_vars, view1_vars,
                   view2_vars, view3_vars>>

\* the script is run again from the top on every interaction
Rerun ==
    /\ pc \in {"done", "crashed"}
    /\ pc' = "load"
    /\ df_batting' = EmptyDF(<<>>)
    /\ df_home_runs' = EmptyDF(<<>>)
    /\ df_career_strikeouts' = EmptyDF(<<>>)
    /\ years' = {} /\ teams' = {} /\ min_home_runs' = NaN /\ league' = None
    /\ df_line' = <<>> /\ status1' = "pending"
    /\ df_hr' = <<>> /\ hr_table' = <<>> /\ status2' = "pending"
    /\ df_k' = <<>> /\ status3' = "pending"
    /\ selected_player' = None /\ df_combined' = EmptyDF(<<>>)
    /\ combined_table' = EmptyDF(<<>>) /\ status4' = "pending"
    /\ UNCHANGED <<importer_vars, db>>

(***************************************************************************)
(* import_csvs.py                                                          *)
(***************************************************************************)
\* REQUIRED.items(), in the order of the dict
REQUIRED == << <<"batting_avg.csv", "batting_avg">>,
               <<"home_runs.csv", "home_runs">>,
               <<"career_strikeouts.csv", "career_strikeouts">> >>
Files == {REQUIRED[i][1] : i \in DOMAIN REQUIRED}

CSV_DTYPES == [batting_avg |-> [Name |-> "str", Team |-> "str", Year |-> "Int64",
                                Batting_Average |-> "float"],
               home_runs |-> [Name |-> "str", Career_Home_Runs |-> "Int64"],
               career_strikeouts |-> [Name |-> "str", League |-> "str",
                                      Career_Strikeouts |-> "Int64"]]

\* a CSV file as read_csv returns it: the header as written and the rows as
\* sequences of cells in the order of the header
NoFile == [exists |-> FALSE, header |-> <<>>, rows |-> <<>>]
CsvFile(header, rows) == [exists |-> TRUE, header |-> header, rows |-> rows]

\* c.strip().replace(" ", "_")
RECURSIVE lstrip(_)
lstrip(s) == IF Len(s) > 0 /\ SubSeq(s, 1, 1) = " "
             THEN lstrip(SubSeq(s, 2, Len(s))) ELSE s
RECURSIVE rstrip(_)
rstrip(s) == IF Len(s) > 0 /\ SubSeq(s, Len(s), Len(s)) = " "
             THEN rstrip(SubSeq(s, 1, Len(s) - 1)) ELSE s
strip(s) == rstrip(lstrip(s))
RECURSIVE replace_spaces(_)
replace_spaces(s) ==
    IF Len(s) = 0 THEN s
    ELSE (IF SubSeq(s, 1, 1) = " " THEN "_" ELSE SubSeq(s, 1, 1))
         \o replace_spaces(SubSeq(s, 2, Len(s)))
normalize(c) == replace_spaces(strip(c))

\* one cell of df[col].astype(typ, errors="ignore"): str turns a missing
\* value into the text "nan"; the numeric types keep a number and a missing
\* value as they are
astype(v, typ) == IF typ = "str" /\ v = NULL THEN "nan" ELSE v

\* the frame import_one hands to to_sql (lines 25-32)
import_frame(file, table_name) ==
    LET columns == [j \in DOMAIN file.header |-> normalize(file.header[j])]
        Pos(c) == CHOOSE j \in DOMAIN columns : columns[j] = c
        Cell(i, c) == IF c \in DOMAIN CSV_DTYPES[table_name]
                      THEN astype(file.rows[i][Pos(c)], CSV_DTYPES[table_name][c])
                      ELSE file.rows[i][Pos(c)]
    IN DataFrame(columns,
                 [i \in DOMAIN file.rows |-> [c \in Range(columns) |-> Cell(i, c)]])

\* to_sql with if_exists="append"
to_sql_append(conn, table_name, df) ==
    [conn EXCEPT ![table_name] =
        IF conn[table_name].state = "ok"
        THEN Table(conn[table_name].cols, conn[table_name].rows \o df.rows)
        ELSE Table(df.cols, df.rows)]

\* df.to_sql(table_name, conn, if_exists="replace", index=False)
to_sql(conn, table_name, df) ==
    [conn EXCEPT ![table_name] = Table(df.cols, df.rows)]

\* skip_missing ending the loop: a missing file stops the import
skip_missing_aborts(i) == 1 + Len(REQUIRED)

\* where main's loop goes after import_one returned early on a missing file
skip_missing(i) == i + 1

MainStart ==
    /\ ipc = "idle"
    /\ db0' = db
    /\ written' = {}
    /\ idx' = 1
    /\ ipc' = IF ~csv_dir THEN "done" ELSE "loop"
    /\ UNCHANGED <<csv_dir, csv, db, imports, first, render_vars>>

\* one iteration of main's loop: import_one(csv_name, table, conn)
ImportOne ==
    /\ ipc = "loop"
    /\ idx <= Len(REQUIRED)
    /\ LET csv_name == REQUIRED[idx][1]
           table_name == REQUIRED[idx][2]
       IN IF ~csv[csv_name].exists
          THEN /\ idx' = skip_missing(idx)
               /\ UNCHANGED <<db, written, imports, first>>
          ELSE /\ db' = to_sql(db, table_name, import_frame(csv[csv_name], table_name))
               /\ written' = written \cup {table_name}
               /\ imports' = [imports EXCEPT ![table_name] = @ + 1]
               /\ first' = IF imports[table_name] = 0
                           THEN [first EXCEPT ![table_name] =
                                    to_sql(db, table_name,
                                           import_frame(csv[csv_name], table_name))[table_name]]
                           ELSE first
               /\ idx' = idx + 1
    /\ UNCHANGED <<csv_dir, csv, ipc, db0, render_vars>>

\* the loop is over: the tables are listed and the connection closed
MainFinish ==
    /\ ipc = "loop"
    /\ idx > Len(REQUIRED)
    /\ ipc' = "done"
    /\ UNCHANGED <<csv_dir, csv, db, idx, db0, written, imports, first, render_vars>>

\* the importer is run again on the same files
MainAgain ==
    /\ ipc = "done"
    /\ \A t \in Tables : imports[t] < MaxImports
    /\ ipc' = "idle"
    /\ UNCHANGED <<csv_dir, csv, db, idx, db0, written, imports, first, render_vars>>

(***************************************************************************)
(* Initial states.                                                         *)
(***************************************************************************)
RenderInit ==
    /\ pc = "load"
    /\ df_batting = EmptyDF(<<>>)
    /\ df_home_runs = EmptyDF(<<>>)
    /\ df_career_strikeouts = EmptyDF(<<>>)
    /\ years = {} /\ teams = {} /\ min_home_runs = NaN /\ league = None
    /\ df_line = <<>> /\ status1 = "pending"
    /\ df_hr = <<>> /\ hr_table = <<>> /\ status2 = "pending"
    /\ df_k = <<>> /\ status3 = "pending"
    /\ selected_player = None /\ df_combined = EmptyDF(<<>>)
    /\ combined_table = EmptyDF(<<>>) /\ status4 = "pending"

ImporterInit ==
    /\ ipc = "idle"
    /\ idx = 1
    /\ db0 = db
    /\ written = {}
    /\ imports = [t \in Tables |-> 0]
    /\ first = [t \in Tables |-> Absent]

\* the importer is not running and there is nothing to import
ImporterOff ==
    /\ csv_dir = FALSE
    /\ csv = [f \in Files |-> NoFile]
    /\ ImporterInit

BattingRow(n, t, y, b) == [Name |-> n, Team |-> t, Year |-> y, Batting_Average |-> b]
HomeRunRow(n, h) == [Name |-> n, Career_Home_Runs |-> h]
StrikeoutRow(n, l, k) == [Name |-> n, League |-> l, Career_Strikeouts |-> k]

\* ---- stores with absent, unreadable and differently shaped tables: the
\* rows are the first rows of a fixed list, cut to the table's columns
SeedRow(table, i) ==
    IF table = "batting_avg"
    THEN [Name |-> IF i % 2 = 1 THEN "Ann" ELSE "Bob", Team |-> "A",
          Year |-> IF i > 2 THEN NaN ELSE 2001, Batting_Average |-> 300,
          Extra |-> "x"]
    ELSE IF table = "home_runs"
    THEN [Name |-> IF i % 2 = 1 THEN "Ann" ELSE "Bob",
          Career_Home_Runs |-> IF i = 1 THEN NaN ELSE 1, Extra |-> "x"]
    ELSE [Name |-> IF i % 2 = 1 THEN "Ann" ELSE "Bob", League |-> "AL",
          Career_Strikeouts |-> 10, Extra |-> "x"]

Shapes(table) ==
    IF table = "batting_avg"
    THEN {EXPECTED[table], <<"Year", "Extra", "Name">>, <<"Team", "Year", "Name">>,
          <<"Extra">>}
    ELSE IF table = "home_runs"
    THEN {EXPECTED[table], <<"Career_Home_Runs", "Extra">>, <<"Extra">>}
    ELSE {EXPECTED[table], <<"Career_Strikeouts", "Name">>, <<"League", "Name">>,
          <<"Extra">>}

ShapedTables(table) ==
    {Table(cols, [i \in 1..n |-> [c \in Range(cols) |-> SeedRow(table, i)[c]]]) :
        cols \in Shapes(table), n \in 0..MaxRows}

Init ==
    /\ db \in {[batting_avg |-> b, home_runs |-> h, career_strikeouts |-> k] :
                  b \in {Absent, Unreadable} \cup ShapedTables("batting_avg"),
                  h \in {Absent} \cup ShapedTables("home_runs"),
                  k \in {Absent} \cup ShapedTables("career_strikeouts")}
    /\ ImporterOff
    /\ RenderInit

RenderNext ==
    \/ LoadData
    \/ SidebarFilters
    \/ Chart1
    \/ Chart2
    \/ Chart3
    \/ Combined
    \/ Rerun

Spec == Init /\ [][RenderNext]_vars

\* ---- stores whose batting_avg table is enumerated (time series view)
BattingTables(names, ts, ys, n) ==
    {Table(EXPECTED["batting_avg"], rows) :
        rows \in SeqsUpTo({BattingRow(nm, t, y, 300) : nm \in names, t \in ts, y \in ys}, n)}

InitSeries ==
    /\ db \in {[batting_avg |-> b, home_runs |-> Absent, career_strikeouts |-> Absent] :
                  b \in BattingTables({"Ann"}, {"A", "B", NULL}, {2001, 2002, NaN}, MaxRows)}
    /\ ImporterOff
    /\ RenderInit

SpecSeries == InitSeries /\ [][RenderNext]_vars

\* ---- stores whose home_runs table is enumerated (ranking view)
HomeRunTables(names, hs, n) ==
    {Table(EXPECTED["home_runs"], rows) :
        rows \in SeqsUpTo({HomeRunRow(nm, h) : nm \in names, h \in hs}, n)}

InitRank ==
    /\ db \in {[batting_avg |-> Absent, home_runs |-> h, career_strikeouts |-> Absent] :
                  h \in HomeRunTables({"Ann", "Bob"}, {0, 1, 2, NaN}, MaxRows)}
    /\ ImporterOff
    /\ RenderInit

SpecRank == InitRank /\ [][RenderNext]_vars

\* ---- stores whose career_strikeouts table is enumerated (cumulative view)
StrikeoutTables(names, ls, ks, n) ==
    {Table(EXPECTED["career_strikeouts"], rows) :
        rows \in SeqsUpTo({StrikeoutRow(nm, l, k) : nm \in names, l \in ls, k \in ks}, n)}

InitCumul ==
    /\ db \in {[batting_avg |-> Absent, home_runs |-> Absent, career_strikeouts |-> k] :
                  k \in StrikeoutTables({"Ann"}, {"AL", "NL", NULL}, {10, 25, 40, NaN}, MaxRows)}
    /\ ImporterOff
    /\ RenderInit

SpecCumul == InitCumul /\ [][RenderNext]_vars

\* ---- stores whose three tables are enumerated together (combined view)
InitPlayer ==
    /\ db \in {[batting_avg |-> b, home_runs |-> h, career_strikeouts |-> k] :
                  b \in {Table(EXPECTED["batting_avg"], rows) :
                           rows \in SeqsUpTo({BattingRow("Ann", NULL, 2001, 300),
                                              BattingRow("Ann", NULL, 2002, 310),
                                              BattingRow("Bob", NULL, 2001, 300)},
                                             MaxJoinRows)},
                  h \in {Table(EXPECTED["home_runs"], rows) :
                           rows \in SeqsUpTo({HomeRunRow("Ann", 0), HomeRunRow("Ann", 1),
                                              HomeRunRow("Bob", 1)}, MaxJoinRows)},
                  k \in {Table(EXPECTED["career_strikeouts"], rows) :
                           rows \in SeqsUpTo({StrikeoutRow("Bob", "AL", 20)},
                                             MaxJoinRows)}}
    /\ ImporterOff
    /\ RenderInit

SpecPlayer == InitPlayer /\ [][RenderNext]_vars

\* ---- the importer: the files and the earlier content of the store
OldTable(t) == Table(EXPECTED[t] \o <<"Old">>,
                     <<[c \in Range(EXPECTED[t]) \cup {"Old"} |->
                           IF c = "Old" THEN "old" ELSE NullOf(c)]>>)

CsvFiles(headers, cells) ==
    {NoFile} \cup
    {CsvFile(h, rows) : h \in headers, rows \in SeqsUpTo(cells, MaxCsvRows)}

InitImport ==
    /\ csv_dir \in BOOLEAN
    /\ csv \in {[f \in Files |->
                    IF f = "batting_avg.csv" THEN b
                    ELSE IF f = "home_runs.csv" THEN h ELSE k] :
                  b \in CsvFiles({<<"Name", "Team", "Year", "Batting_Average">>,
                                  <<" Name", "Team ", "Year", "Batting Average">>},
                                 {<<"Ann", "A", 2001, 300>>, <<NULL, "A", NaN, 300>>}),
                  h \in CsvFiles({<<"Name", "Career_Home_Runs">>,
                                  <<"Name", " Career Home Runs ">>},
                                 {<<"Ann", 1>>, <<"Bob", NaN>>}),
                  k \in CsvFiles({<<"Name", "League", "Career Strikeouts", "Notes">>},
                                 {<<"Ann", "AL", 10, "n">>})}
    /\ csv_dir = FALSE => \A f \in Files : ~csv[f].exists
    /\ db \in [Tables -> {Absent}] \cup {[t \in Tables |-> OldTable(t)]}
              \cup {[t \in Tables |-> IF t = "home_runs" THEN OldTable(t) ELSE Absent]}
    /\ ImporterInit
    /\ RenderInit

ImportNext ==
    \/ MainStart
    \/ ImportOne
    \/ MainFinish
    \/ MainAgain

SpecImport == InitImport /\ [][ImportNext]_vars

(***************************************************************************)
(* Properties.                                                             *)
(***************************************************************************)
Frame(t) == IF t = "batting_avg" THEN df_batting
            ELSE IF t = "home_runs" THEN df_home_runs ELSE df_career_strikeouts

Loaded == pc \notin {"load"}

Shared(t) == Range(EXPECTED[t]) \cap Range(db[t].cols)

\* the position of column c in the expected list of table t
Position(t, c) == CHOOSE i \in DOMAIN EXPECTED[t] : EXPECTED[t][i] = c

\* the number of positions of seq that hold r
Count(r, seq) == Cardinality({i \in DOMAIN seq : seq[i] = r})

\* seq1 and seq2 hold the same rows, each as many times
SameRows(seq1, seq2) ==
    \A r \in Range(seq1) \cup Range(seq2) : Count(r, seq1) = Count(r, seq2)

\* C1: once the tables are loaded, the frame read for each expected table is
\* (a) the zero-row frame with exactly the expected columns, in order, when
\* the table is absent or its read raises; (b) every row of the table,
\* projected onto the columns it shares with the expected list, the columns
\* in the order of the expected list, when it shares one; (c) the zero-row
\* frame of (a) when it shares none.
C1_ReadTable ==
    Loaded =>
      \A t \in Tables :
        LET df == Frame(t) IN
        IF db[t].state # "ok" \/ Shared(t) = {}
        THEN df.cols = EXPECTED[t] /\ df.rows = <<>>
        ELSE /\ Range(df.cols) = Shared(t)
             /\ Len(df.cols) = Cardinality(Shared(t))
             /\ \A i, j \in DOMAIN df.cols :
                   i < j => Position(t, df.cols[i]) < Position(t, df.cols[j])
             /\ Len(df.rows) = Len(db[t].rows)
             /\ \A i \in DOMAIN df.rows :
                   /\ DOMAIN df.rows[i] = Shared(t)
                   /\ \A c \in Shared(t) : df.rows[i][c] = db[t].rows[i][c]

\* a table stored with the columns Year, Extra, Name and two rows or more was
\* read as its rows under Name, Year
C1_Witness ==
    /\ Loaded
    /\ db["batting_avg"].state = "ok"
    /\ db["batting_avg"].cols = <<"Year", "Extra", "Name">>
    /\ Len(db["batting_avg"].rows) >= 2
    /\ df_batting.cols = <<"Name", "Year">>
    /\ Len(df_batting.rows) = Len(db["batting_avg"].rows)
    /\ db["home_runs"].state = "absent"
    /\ df_home_runs = EmptyDF(<<"Name", "Career_Home_Runs">>)
    /\ db["career_strikeouts"].state = "ok"
    /\ db["career_strikeouts"].cols = <<"Extra">>
    /\ Len(db["career_strikeouts"].rows) >= 1
    /\ df_career_strikeouts = EmptyDF(<<"Name", "League", "Career_Strikeouts">>)

\* C2: once the tables are loaded, the frame read for each expected table
\* holds every column of its expected list.
C2_AllExpectedColumns ==
    Loaded => \A t \in Tables : Range(EXPECTED[t]) \subseteq Range(Frame(t).cols)

\* C9: a run of the script is never ended by an exception before its four
\* views were reached.
C9_RenderReachesAllViews == pc # "crashed"

\* C5: the table of the ranking view holds only rows with Career_Home_Runs >=
\* min_home_runs, in descending order of Career_Home_Runs, and holds every row
\* of home_runs with Career_Home_Runs >= min_home_runs as many times as the
\* table does; the view shows no table only when there is no such row.
C5_Ranking ==
    LET qualifying == SelectSeq(df_home_runs.rows,
                                LAMBDA r : r["Career_Home_Runs"] # NaN
                                           /\ r["Career_Home_Runs"] >= min_home_runs)
    IN /\ status2 = "table" =>
            /\ \A i \in DOMAIN hr_table : hr_table[i]["Career_Home_Runs"] >= min_home_runs
            /\ \A i, j \in DOMAIN hr_table :
                  i < j => hr_table[i]["Career_Home_Runs"] >= hr_table[j]["Career_Home_Runs"]
            /\ SameRows(hr_table, qualifying)
       /\ (status2 = "info" /\ min_home_runs # NaN) => qualifying = <<>>

\* two equal rows were ranked, both kept, and a third row, below the
\* threshold, was left out
C5_Witness ==
    /\ status2 = "table"
    /\ min_home_runs = 1
    /\ Len(df_home_runs.rows) = 3
    /\ Len(hr_table) = 2
    /\ hr_table[1] = hr_table[2]
    /\ \E i \in DOMAIN df_home_runs.rows : df_home_runs.rows[i]["Career_Home_Runs"] = 0

\* the rows of seq with Career_Home_Runs = v, in the order of seq
Tied(seq, v) == SelectSeq(seq, LAMBDA r : r["Career_Home_Runs"] = v)

\* C10 as stated: the rows of the ranking with equal Career_Home_Runs are in
\* the order they have in the home_runs table.
C10_StableTies ==
    status2 = "table" =>
      \A v \in {hr_table[i]["Career_Home_Runs"] : i \in DOMAIN hr_table} :
         Tied(hr_table, v) = Tied(df_home_runs.rows, v)

\* C10 as amended: the rows of the ranking with equal Career_Home_Runs are the
\* rows of the home_runs table with that value, each as many times, in some
\* order.
C10_TiesPermuted ==
    status2 = "table" =>
      \A v \in {hr_table[i]["Career_Home_Runs"] : i \in DOMAIN hr_table} :
         /\ Len(Tied(hr_table, v)) = Len(Tied(df_home_runs.rows, v))
         /\ SameRows(Tied(hr_table, v), Tied(df_home_runs.rows, v))

\* two rows of different players with the same Career_Home_Runs were ranked
\* in the reverse of their order in the table
C10_Witness ==
    /\ status2 = "table"
    /\ Len(hr_table) >= 2
    /\ hr_table[1]["Career_Home_Runs"] = hr_table[2]["Career_Home_Runs"]
    /\ hr_table[1]["Name"] # hr_table[2]["Name"]
    /\ Tied(hr_table, hr_table[1]["Career_Home_Runs"])
         # Tied(df_home_runs.rows, hr_table[1]["Career_Home_Runs"])

\* the sum of vals, missing as soon as one of them is
NanSum(vals) == IF \E i \in DOMAIN vals : vals[i] = NaN THEN NaN ELSE Sum(vals)

\* the row without its Cumulative column
Source(r) == [c \in DOMAIN r \ {"Cumulative"} |-> r[c]]

\* C6: the cumulative view holds exactly the rows of the selected League, in
\* ascending order of Career_Strikeouts (the rows without a value last), and
\* the Cumulative of the row at position i is the sum of Career_Strikeouts
\* over positions 1..i, so that the last one is the League's total; rows
\* 40, 10, 25 in any order give 10, 25, 40 with Cumulative 10, 35, 75.
C6_Cumulative ==
    status3 = "chart" =>
      LET ks == [i \in DOMAIN df_k |-> df_k[i]["Career_Strikeouts"]]
          cum == [i \in DOMAIN df_k |-> df_k[i]["Cumulative"]]
          ofLeague == SelectSeq(df_career_strikeouts.rows,
                                LAMBDA r : r["League"] = league)
      IN /\ SameRows([i \in DOMAIN df_k |-> Source(df_k[i])], ofLeague)
         /\ Len(df_k) = Len(ofLeague)
         /\ \A i, j \in DOMAIN df_k :
               i < j => \/ ks[j] = NaN
                        \/ (ks[i] # NaN /\ ks[i] <= ks[j])
         /\ \A i \in DOMAIN df_k : cum[i] = NanSum(SubSeq(ks, 1, i))
         /\ cum[Len(df_k)] =
               NanSum([i \in DOMAIN ofLeague |-> ofLeague[i]["Career_Strikeouts"]])
         /\ ({ks[i] : i \in DOMAIN ks} = {10, 25, 40} /\ Len(ks) = 3)
               => ks = <<10, 25, 40>> /\ cum = <<10, 35, 75>>

\* the rows 40, 10, 25 of one League, stored in this order, were shown as
\* 10, 25, 40 with Cumulative 10, 35, 75
C6_Witness ==
    /\ status3 = "chart"
    /\ [i \in DOMAIN df_career_strikeouts.rows |->
           df_career_strikeouts.rows[i]["Career_Strikeouts"]] = <<40, 10, 25>>
    /\ [i \in DOMAIN df_k |-> df_k[i]["Career_Strikeouts"]] = <<10, 25, 40>>
    /\ [i \in DOMAIN df_k |-> df_k[i]["Cumulative"]] = <<10, 35, 75>>

\* the rows of frame df whose Name is p
Named(df, p) == SelectSeq(df.rows, LAMBDA r : r["Name"] = p)

\* the values of column c a row of player p is joined with: those of the rows
\* of df with that Name, the missing value standing for none
Joinable(df, p, c) ==
    IF Named(df, p) = <<>> THEN <<NullOf(c)>>
    ELSE [i \in DOMAIN Named(df, p) |-> Named(df, p)[i][c]]

AtLeastOne(n) == IF n < 1 THEN 1 ELSE n

\* C7: for the selected player, the combined frame holds rows of that Name
\* only, and each batting row of the player once for every pair of a matching
\* home_runs row and a matching career_strikeouts row, max(1,h) * max(1,k)
\* times in all, with their Career_Home_Runs and Career_Strikeouts, missing
\* where nothing matches (the column is absent when the table has no rows);
\* the table shown has these rows.  A player with the years 2001 and 2002, one
\* home_runs row and no career_strikeouts row has two rows, with the same
\* Career_Home_Runs and no Career_Strikeouts.
C7_CombinedPlayer ==
  /\ (pc = "done" /\ selected_player # None) => status4 = "table"
  /\ status4 = "table" =>
      LET p == selected_player
          bat == Named(df_batting, p)
          h == Len(Named(df_home_runs, p))
          k == Len(Named(df_career_strikeouts, p))
          out == df_combined.rows
          hrs == IF empty(df_home_runs) THEN <<NaN>>
                 ELSE Joinable(df_home_runs, p, "Career_Home_Runs")
          sos == IF empty(df_career_strikeouts) THEN <<NaN>>
                 ELSE Joinable(df_career_strikeouts, p, "Career_Strikeouts")
          Hr(r) == IF empty(df_home_runs) THEN NaN ELSE r["Career_Home_Runs"]
          So(r) == IF empty(df_career_strikeouts) THEN NaN ELSE r["Career_Strikeouts"]
          Bat(r) == [c \in Range(df_batting.cols) |-> r[c]]
      IN /\ \A i \in DOMAIN out : out[i]["Name"] = p
         /\ Len(out) = Len(bat) * AtLeastOne(h) * AtLeastOne(k)
         /\ Has(df_combined, "Career_Home_Runs") <=> ~empty(df_home_runs)
         /\ Has(df_combined, "Career_Strikeouts") <=> ~empty(df_career_strikeouts)
         /\ \A b \in Range(bat), x \in Range(hrs), y \in Range(sos) :
               Cardinality({i \in DOMAIN out :
                              Bat(out[i]) = b /\ Hr(out[i]) = x /\ So(out[i]) = y})
                 = Count(b, bat) * Count(x, hrs) * Count(y, sos)
         /\ combined_table.cols = SelectSeq(<<"Year", "Batting_Average",
                                              "Career_Home_Runs", "Career_Strikeouts">>,
                                            LAMBDA c : Has(df_combined, c))
         /\ Len(combined_table.rows) = Len(out)
         /\ \A i \in DOMAIN out : \A c \in Range(combined_table.cols) :
               combined_table.rows[i][c] = out[i][c]
         /\ ({bat[i]["Year"] : i \in DOMAIN bat} = {2001, 2002} /\ Len(bat) = 2
               /\ h = 1 /\ k = 0)
            => /\ Len(combined_table.rows) = 2
               /\ {combined_table.rows[i]["Year"] : i \in 1..2} = {2001, 2002}
               /\ \A i \in 1..2 :
                     /\ combined_table.rows[i]["Career_Home_Runs"]
                          = Named(df_home_runs, p)[1]["Career_Home_Runs"]
                     /\ Has(combined_table, "Career_Strikeouts")
                          => combined_table.rows[i]["Career_Strikeouts"] = NaN

\* the player of the years 2001 and 2002 with one home_runs row and none of
\* the rows of career_strikeouts was shown on two rows
C7_Witness ==
    /\ status4 = "table"
    /\ selected_player = "Ann"
    /\ {r["Year"] : r \in Range(Named(df_batting, "Ann"))} = {2001, 2002}
    /\ Len(Named(df_batting, "Ann")) = 2
    /\ Len(Named(df_home_runs, "Ann")) = 1
    /\ Len(Named(df_home_runs, "Bob")) = 1
    /\ ~empty(df_career_strikeouts)
    /\ Named(df_career_strikeouts, "Ann") = <<>>
    /\ Len(combined_table.rows) = 2
    /\ \A i \in 1..2 : combined_table.rows[i]["Career_Strikeouts"] = NaN

\* the same player with two home_runs rows and two career_strikeouts rows: each
\* batting row was shown four times
C7_Multiplied ==
    /\ status4 = "table"
    /\ Len(Named(df_batting, selected_player)) = 1
    /\ Len(Named(df_home_runs, selected_player)) = 2
    /\ Len(Named(df_career_strikeouts, selected_player)) = 2
    /\ Len(combined_table.rows) = 4

Charted == pc \in {"chart2", "chart3", "combined", "done"} /\ ~empty(df_batting)

\* C8 as stated: with no year selected the time series holds the rows it
\* holds with every available year selected, and with no team selected the
\* rows it holds with every available team selected.
C8_EmptyIsAll ==
    Charted =>
      /\ years = {} =>
            df_line = time_series(df_batting, Available(df_batting, "Year"), teams)
      /\ teams = {} =>
            df_line = time_series(df_batting, years, Available(df_batting, "Team"))

\* C8 as amended: with no year selected the time series holds the rows it
\* holds with every available year selected and, in their place, the rows
\* without a Year that pass the team filter; the same for the teams.  (With
\* no year at all in the table, every available year selected is no year
\* selected.)
C8_EmptyIsAllAndNulls ==
    Charted =>
      /\ years = {} =>
            time_series(df_batting, Available(df_batting, "Year"), teams)
              = IF Available(df_batting, "Year") = {} THEN df_line
                ELSE SelectSeq(df_line, LAMBDA r : r["Year"] # NaN)
      /\ teams = {} =>
            time_series(df_batting, years, Available(df_batting, "Team"))
              = IF Available(df_batting, "Team") = {} THEN df_line
                ELSE SelectSeq(df_line, LAMBDA r : r["Team"] # NULL)

\* no year was selected in a table that has years, and the time series holds a
\* row with a Year and a row without
C8_Witness ==
    /\ Charted
    /\ years = {}
    /\ teams # {}
    /\ \E i, j \in DOMAIN df_line :
          df_line[i]["Year"] = NaN /\ df_line[j]["Year"] # NaN
    /\ Len(df_line) < Len(df_batting.rows)

\* the imported table of file f as the CSV states it: the columns are the
\* header's names, trimmed and with "_" for " ", and row i holds the cells of
\* the file's row i (a missing text of a column declared str as "nan")
HoldsFile(tbl, f, t) ==
    /\ tbl.state = "ok"
    /\ Len(tbl.cols) = Len(f.header)
    /\ \A j \in DOMAIN f.header :
          tbl.cols[j] = normalize(f.header[j])
    /\ \A c \in Range(tbl.cols) : \A j \in 1..Len(c) : SubSeq(c, j, j) # " "
    /\ Len(tbl.rows) = Len(f.rows)
    /\ \A i \in DOMAIN f.rows :
          /\ DOMAIN tbl.rows[i] = Range(tbl.cols)
          /\ \A j \in DOMAIN f.header :
                tbl.rows[i][tbl.cols[j]] =
                    IF tbl.cols[j] \in {"Name", "Team", "League"}
                       /\ f.rows[i][j] = NULL
                    THEN "nan" ELSE f.rows[i][j]

\* C3: a table whose file was imported holds exactly the rows of the file,
\* whatever it held before, and holds after every further import of the file
\* what the first import left.
C3_ImportReplaces ==
    \A n \in DOMAIN REQUIRED :
       LET f == csv[REQUIRED[n][1]]
           t == REQUIRED[n][2]
       IN imports[t] >= 1 =>
            /\ HoldsFile(db[t], f, t)
            /\ db[t] = first[t]

\* a file of two rows, with spaces in its header, was imported twice into a
\* table that held other rows and columns
C3_Witness ==
    /\ imports["home_runs"] = 2
    /\ db0["home_runs"].state = "ok"
    /\ csv["home_runs.csv"].header = <<"Name", " Career Home Runs ">>
    /\ Len(csv["home_runs.csv"].rows) = 2
    /\ db["home_runs"].cols = <<"Name", "Career_Home_Runs">>
    /\ Len(db["home_runs"].rows) = 2

\* C4: when main is over, the tables written are those of the files that
\* exist and every other table is as it was; nothing is written without the
\* directory.
C4_WrittenIffFileExists ==
    ipc = "done" =>
      /\ written = {REQUIRED[n][2] : n \in {m \in DOMAIN REQUIRED :
                                               csv[REQUIRED[m][1]].exists}}
      /\ \A t \in Tables \ written : db[t] = db0[t]
      /\ ~csv_dir => (written = {} /\ db = db0)

\* the first file is missing, the other two exist: batting_avg is as it was,
\* the other two tables were written
C4_Witness ==
    /\ ipc = "done"
    /\ csv_dir
    /\ ~csv["batting_avg.csv"].exists
    /\ db["batting_avg"] = OldTable("batting_avg")
    /\ written = {"home_runs", "career_strikeouts"}
    /\ db["home_runs"] # db0["home_runs"]
    /\ db["career_strikeouts"] # db0["career_strikeouts"]

\* the directory is missing and main is over: the store is as it was
C4_NoDirectory ==
    /\ ipc = "done"
    /\ ~csv_dir
    /\ db = [t \in Tables |-> OldTable(t)]

====
